---- MODULE Spec2Model ----
(***************************************************************************)
(* Skeleton graph construction and compression of the Pinocchio rigging    *)
(* library (Pinocchio/skeleton.cpp).                                       *)
(*                                                                         *)
(* Vectors are 0-based in the source; here a vector is a sequence and      *)
(* At(s, i) reads element i of the source vector.  A position (PVector3)   *)
(* is modelled by one integer coordinate, so that the length of a segment  *)
(* |a - b| is an integer; a double quotient is kept as a reduced           *)
(* numerator/denominator pair, and 0/0 is NaN.                             *)
(***************************************************************************)
EXTENDS Integers, Sequences, FiniteSets, TLC

VARIABLES
    jointNames,   \* map<string,int>: a function whose DOMAIN is the set of keys
    fPrevV,       \* full skeleton: parent index of each joint, -1 for none
    fSymV,        \* full skeleton: symmetric partner of each joint, -1 for none
    fVerts,       \* fGraphV.verts: joint positions
    fEdges,       \* fGraphV.edges: adjacency lists
    fcMapV,       \* full index -> compressed index, -1 when collapsed
    cfMapV,       \* compressed index -> full index
    fcFractionV,  \* full index -> fraction of the compressed bone, -1 initially
    cPrevV,       \* compressed skeleton: parent index
    cSymV,        \* compressed skeleton: symmetric partner
    cVerts,       \* cGraphV.verts
    cEdges,       \* cGraphV.edges
    cFeetV,       \* compressed skeleton: foot tags
    cFatV,        \* compressed skeleton: fat tags
    cLengthV,     \* compressed skeleton: bone lengths
    phase,        \* position of the caller: "Open" before initCompressed, "Compressed" after
    outcome,      \* how the last call ended: "ok", or "crash" (the process is gone)
    lastCall,     \* the last call made and its arguments
    driver,       \* who makes the calls: "Free" (any caller) or a built-in constructor
    pc,           \* position of a built-in constructor in its call list
    disciplined,  \* every makeJoint call so far kept the construction order contract
    walkSteps,    \* the longest upward walk of the last initCompressed run
    nSym, nScale, nTag   \* number of makeSymmetric, scale and setFoot/setFat calls made

full == <<jointNames, fPrevV, fSymV, fVerts, fEdges>>
comp == <<fcMapV, cfMapV, fcFractionV, cPrevV, cSymV, cVerts, cEdges, cFeetV, cFatV, cLengthV>>
ctl  == <<phase, outcome, lastCall, driver, pc, disciplined, walkSteps, nSym, nScale, nTag>>
vars == <<full, comp, ctl>>

(***************************************************************************)
(* Bounds of the model.                                                    *)
(***************************************************************************)
MaxJoints == 3
MaxSym    == 1
MaxScale  == 1
MaxTag    == 1

Names     == {"a", "b", "c"}
Coordinates == {0, 1, 3}     \* coordinates read from a line of a skeleton file
Factors   == {-1, 0, 2}      \* factors handed to scale

(***************************************************************************)
(* Helpers: 0-based vectors, std::map lookup, doubles as fractions.        *)
(***************************************************************************)
At(s, i) == s[i + 1]

Put(s, i, v) == [s EXCEPT ![i + 1] = v]

\* vector::resize(n, v): existing elements are kept, new ones are v
Resize(s, n, v) == [k \in 1..n |-> IF k <= Len(s) THEN s[k] ELSE v]

\* map::operator[] : an absent key is inserted with value 0
MapSet(m, k, v) == [x \in (DOMAIN m) \cup {k} |-> IF x = k THEN v ELSE m[x]]

MapTouch(m, k) == IF k \in DOMAIN m THEN m ELSE MapSet(m, k, 0)

MapGet(m, k) == IF k \in DOMAIN m THEN m[k] ELSE 0

Abs(x) == IF x < 0 THEN -x ELSE x

RECURSIVE Gcd(_, _)
Gcd(a, b) == IF b = 0 THEN a ELSE Gcd(b, a % b)

NaN == <<0, 0>>

MinusOne == <<-1, 1>>

\* the double n / d, for n >= 0 and d >= 0
Quot(n, d) == IF d = 0 THEN NaN ELSE <<n \div Gcd(n, d), d \div Gcd(n, d)>>

\* PVector3 * 0.5 (positions are given in even units, so halving is exact)
Half(p) == p \div 2

\* (a - b).length()
SegLength(a, b) == Abs(a - b)

NoCall == [op |-> "none", a |-> "", b |-> "", x |-> 0]

(***************************************************************************)
(* Skeleton::makeJoint                                                     *)
(***************************************************************************)
MakeJointNames(name, previous) ==
    LET named == MapSet(jointNames, name, Len(fSymV))
    IN  IF previous = "" THEN named ELSE MapTouch(named, previous)

MakeJointPrev(name, previous) ==
    IF previous = "" THEN -1
    ELSE MapGet(MapSet(jointNames, name, Len(fSymV)), previous)

MakeJointEdges(cur, prev) ==
    LET resized == Resize(fEdges, cur + 1, <<>>)
    IN  IF prev = -1 THEN resized
        ELSE LET e1 == Put(resized, cur, Append(At(resized, cur), prev))
             IN  Put(e1, prev, Append(At(e1, prev), cur))

makeJoint(name, pos, previous) ==
    LET cur  == Len(fSymV)
        prev == MakeJointPrev(name, previous)
    IN  /\ fSymV' = Append(fSymV, -1)
        /\ fVerts' = Append(fVerts, Half(pos))
        /\ fEdges' = MakeJointEdges(cur, prev)
        /\ jointNames' = MakeJointNames(name, previous)
        /\ fPrevV' = Append(fPrevV, prev)
        /\ outcome' = "ok"
        /\ lastCall' = [op |-> "makeJoint", a |-> name, b |-> previous, x |-> pos]

(***************************************************************************)
(* Skeleton::makeSymmetric.  With no joint at all fSymV[0] is written      *)
(* outside the vector: undefined behaviour, which either kills the process *)
(* or writes memory the skeleton does not observe.                         *)
(***************************************************************************)
SymLow(name1, name2) ==
    LET i1 == MapGet(jointNames, name1)
        i2 == MapGet(MapTouch(jointNames, name1), name2)
    IN  IF i1 > i2 THEN i2 ELSE i1

SymHigh(name1, name2) ==
    LET i1 == MapGet(jointNames, name1)
        i2 == MapGet(MapTouch(jointNames, name1), name2)
    IN  IF i1 > i2 THEN i1 ELSE i2

makeSymmetric(name1, name2, ub) ==
    LET lo == SymLow(name1, name2)
        hi == SymHigh(name1, name2)
    IN  /\ jointNames' = MapTouch(MapTouch(jointNames, name1), name2)
        /\ lastCall' = [op |-> "makeSymmetric", a |-> name1, b |-> name2, x |-> 0]
        /\ IF hi < Len(fSymV)
           THEN fSymV' = Put(fSymV, hi, lo) /\ outcome' = "ok"
           ELSE fSymV' = fSymV /\ outcome' = ub
        /\ UNCHANGED <<fPrevV, fVerts, fEdges>>

(***************************************************************************)
(* Skeleton::initCompressed.                                               *)
(*                                                                         *)
(* A joint other than joint 0 that has no parent makes both upward walks   *)
(* index fcMapV, fPrevV and fGraphV.verts with -1: undefined behaviour.    *)
(* The build then either dies, or reads some value g >= 0 where            *)
(* fcMapV[-1] would be (the walk stops there) and some position gv where   *)
(* verts[-1] would be.                                                     *)
(***************************************************************************)
\* faulty variant: the root is not kept when its degree is 2
RetainedByDegree(i) == Len(At(fEdges, i)) # 2

Retained(i) == ~(Len(At(fEdges, i)) = 2 /\ i # 0)

\* lines 31-37: the linear scan that numbers the retained joints
RECURSIVE ScanJoints(_, _, _)
ScanJoints(i, fc, cf) ==
    IF i >= Len(fPrevV) THEN [fc |-> fc, cf |-> cf]
    ELSE IF ~Retained(i) THEN ScanJoints(i + 1, fc, cf)
    ELSE ScanJoints(i + 1, Put(fc, i, Len(cf)), Append(cf, i))

\* faulty variant: the loop tests fcMapV[curPrev] <= 0, so it walks past the root
RECURSIVE PrevWalkPastZero(_, _, _, _)
PrevWalkPastZero(curPrev, fc, g, steps) ==
    IF curPrev < 0
    THEN [val |-> g, steps |-> steps, ub |-> TRUE, hung |-> FALSE]
    ELSE IF At(fc, curPrev) <= 0
    THEN IF steps >= Len(fPrevV)
         THEN [val |-> -1, steps |-> steps, ub |-> FALSE, hung |-> TRUE]
         ELSE PrevWalkPastZero(At(fPrevV, curPrev), fc, g, steps + 1)
    ELSE [val |-> At(fc, curPrev), steps |-> steps, ub |-> FALSE, hung |-> FALSE]

\* lines 55-58: walk up from curPrev until a joint with a compressed index
RECURSIVE PrevWalk(_, _, _, _)
PrevWalk(curPrev, fc, g, steps) ==
    IF curPrev < 0
    THEN [val |-> g, steps |-> steps, ub |-> TRUE, hung |-> FALSE]
    ELSE IF At(fc, curPrev) < 0
    THEN IF steps >= Len(fPrevV)
         THEN [val |-> -1, steps |-> steps, ub |-> FALSE, hung |-> TRUE]
         ELSE PrevWalk(At(fPrevV, curPrev), fc, g, steps + 1)
    ELSE [val |-> At(fc, curPrev), steps |-> steps, ub |-> FALSE, hung |-> FALSE]

\* lines 74-78: the joints the do-while loop visits, starting at cur
RECURSIVE ChainWalk(_, _, _)
ChainWalk(cur, fc, steps) ==
    LET next == At(fPrevV, cur)
    IN  IF next < 0
        THEN [joints |-> <<cur>>, ub |-> TRUE, hung |-> FALSE]
        ELSE IF At(fc, next) = -1
        THEN IF steps >= Len(fPrevV)
             THEN [joints |-> <<cur>>, ub |-> FALSE, hung |-> TRUE]
             ELSE LET rest == ChainWalk(next, fc, steps + 1)
                  IN  [joints |-> <<cur>> \o rest.joints, ub |-> rest.ub, hung |-> rest.hung]
        ELSE [joints |-> <<cur>>, ub |-> FALSE, hung |-> FALSE]

\* line 75: lengths[cur]
ChainSegment(cur, gv) ==
    SegLength(At(fVerts, cur),
              IF At(fPrevV, cur) < 0 THEN gv ELSE At(fVerts, At(fPrevV, cur)))

\* faulty variant: cLengthV[i] = lengths[cur] instead of +=
ChainLengthLast(joints, gv) ==
    IF joints = <<>> THEN 0 ELSE ChainSegment(joints[Len(joints)], gv)

RECURSIVE ChainLength(_, _)
ChainLength(joints, gv) ==
    IF joints = <<>> THEN 0
    ELSE ChainSegment(Head(joints), gv) + ChainLength(Tail(joints), gv)

\* lines 63-66: the compressed adjacency lists
\* faulty variant: the edge back from the parent is forgotten
RECURSIVE AddEdgesOneWay(_, _, _)
AddEdgesOneWay(i, cp, ce) ==
    IF i >= Len(cp) THEN ce
    ELSE AddEdgesOneWay(i + 1, cp, Put(ce, i, Append(At(ce, i), At(cp, i))))

RECURSIVE AddEdges(_, _, _)
AddEdges(i, cp, ce) ==
    IF i >= Len(cp) THEN ce
    ELSE LET e1 == Put(ce, i, Append(At(ce, i), At(cp, i)))
             e2 == Put(e1, At(cp, i), Append(At(e1, At(cp, i)), i))
         IN  AddEdges(i + 1, cp, e2)

\* lines 80-81: the fractions of the joints of one chain
\* faulty variant: the cumulative distance from the child end is recorded
SetFractionsCumulative(frac, joints, total, gv) ==
    [k \in 1..Len(frac) |->
        IF \E m \in 1..Len(joints) : joints[m] = k - 1
        THEN LET m == CHOOSE m \in 1..Len(joints) : joints[m] = k - 1
             IN  Quot(ChainLength(SubSeq(joints, 1, m - 1), gv), total)
        ELSE frac[k]]

RECURSIVE SetFractions(_, _, _, _)
SetFractions(frac, joints, total, gv) ==
    IF joints = <<>> THEN frac
    ELSE SetFractions(Put(frac, Head(joints), Quot(ChainSegment(Head(joints), gv), total)),
                      Tail(joints), total, gv)

\* lines 71-82: lengths and fractions, bone by bone
RECURSIVE LengthLoop(_, _, _, _, _, _)
LengthLoop(i, fc, cf, len, frac, gv) ==
    IF i >= Len(cf) THEN [len |-> len, frac |-> frac]
    ELSE LET joints == ChainWalk(At(cf, i), fc, 1).joints
             total  == At(len, i) + ChainLength(joints, gv)
         IN  LengthLoop(i + 1, fc, cf, Put(len, i, total),
                        SetFractions(frac, joints, total, gv), gv)

Compressed(g, gv) ==
    LET scan   == ScanJoints(0, Resize(fcMapV, Len(fPrevV), -1), cfMapV)
        fc     == scan.fc
        cf     == scan.cf
        nc     == Len(cf)
        walk   == [j \in 1..nc |-> IF j = 1
                      THEN [val |-> -1, steps |-> 0, ub |-> FALSE, hung |-> FALSE]
                      ELSE PrevWalk(At(fPrevV, cf[j]), fc, g, 1)]
        chain  == [j \in 1..nc |-> IF j = 1
                      THEN [joints |-> <<>>, ub |-> FALSE, hung |-> FALSE]
                      ELSE ChainWalk(cf[j], fc, 1)]
        cp     == [j \in 1..nc |-> IF j = 1 THEN At(Resize(cPrevV, nc, -1), 0)
                                   ELSE walk[j].val]
        cs     == [j \in 1..nc |-> IF At(fSymV, cf[j]) >= 0
                                   THEN At(fc, At(fSymV, cf[j]))
                                   ELSE At(Resize(cSymV, nc, -1), j - 1)]
        hung   == \E j \in 1..nc : walk[j].hung \/ chain[j].hung
        ub     == \E j \in 1..nc : walk[j].ub \/ chain[j].ub
        ll     == LengthLoop(1, fc, cf, Resize(cLengthV, nc, 0),
                             Resize(fcFractionV, Len(fPrevV), MinusOne), gv)
        longest == CHOOSE n \in 0..(Len(fPrevV) + 1) :
                     /\ \A j \in 1..nc : walk[j].steps <= n /\ Len(chain[j].joints) <= n
                     /\ \/ n = 0
                        \/ \E j \in 1..nc : walk[j].steps = n \/ Len(chain[j].joints) = n
    IN  [fc |-> fc, cf |-> cf, nc |-> nc, cp |-> cp, cs |-> cs,
         hung |-> hung, ub |-> ub, steps |-> longest,
         cv |-> cVerts \o [j \in 1..nc |-> At(fVerts, cf[j])],
         ce |-> IF hung \/ (ub /\ g >= nc) THEN <<>>
                ELSE AddEdges(1, cp, Resize(cEdges, nc, <<>>)),
         len |-> IF hung THEN <<>> ELSE ll.len,
         frac |-> IF hung THEN <<>> ELSE ll.frac]

initCompressed(ubOutcome, g, gv) ==
    \E r \in {Compressed(g, gv)} :
        /\ lastCall' = [op |-> "initCompressed", a |-> "", b |-> "", x |-> 0]
        /\ walkSteps' = r.steps
        /\ IF r.hung
           THEN outcome' = "hang" /\ UNCHANGED comp
           ELSE IF r.ub /\ (ubOutcome = "crash" \/ g >= r.nc)
           THEN outcome' = "crash" /\ UNCHANGED comp
           ELSE /\ outcome' = "ok"
                /\ fcMapV' = r.fc
                /\ cfMapV' = r.cf
                /\ cPrevV' = r.cp
                /\ cSymV' = r.cs
                /\ cVerts' = r.cv
                /\ cEdges' = r.ce
                /\ cFeetV' = [j \in 1..r.nc |-> FALSE]
                /\ cFatV' = [j \in 1..r.nc |-> FALSE]
                /\ cLengthV' = r.len
                /\ fcFractionV' = r.frac
        /\ UNCHANGED full

(***************************************************************************)
(* Skeleton::scale                                                         *)
(***************************************************************************)
\* faulty variant: the bone lengths are not rescaled
scaleKeepLengths(factor) ==
    /\ fVerts' = [k \in 1..Len(fVerts) |-> fVerts[k] * factor]
    /\ cVerts' = [k \in 1..Len(cVerts) |-> cVerts[k] * factor]
    /\ outcome' = "ok"
    /\ lastCall' = [op |-> "scale", a |-> "", b |-> "", x |-> factor]
    /\ UNCHANGED <<jointNames, fPrevV, fSymV, fEdges, fcMapV, cfMapV, fcFractionV,
                   cPrevV, cSymV, cEdges, cFeetV, cFatV, cLengthV>>

scale(factor) ==
    /\ fVerts' = [k \in 1..Len(fVerts) |-> fVerts[k] * factor]
    /\ cVerts' = [k \in 1..Len(cVerts) |-> cVerts[k] * factor]
    /\ cLengthV' = [k \in 1..Len(cLengthV) |->
                       IF k <= Len(cVerts) THEN cLengthV[k] * factor ELSE cLengthV[k]]
    /\ outcome' = "ok"
    /\ lastCall' = [op |-> "scale", a |-> "", b |-> "", x |-> factor]
    /\ UNCHANGED <<jointNames, fPrevV, fSymV, fEdges, fcMapV, cfMapV, fcFractionV,
                   cPrevV, cSymV, cEdges, cFeetV, cFatV>>

(***************************************************************************)
(* Skeleton::setFoot and Skeleton::setFat.  fcMapV[i] read past the end of *)
(* fcMapV (nothing compressed yet) and a tag written at index -1 (the      *)
(* joint was collapsed) are undefined behaviour: the process dies, or the  *)
(* stray write lands outside the tag vectors.                              *)
(***************************************************************************)
TagIndex(name) ==
    LET i == MapGet(jointNames, name)
    IN  IF i >= Len(fcMapV) THEN -1 ELSE At(fcMapV, i)

setFoot(name, ub) ==
    LET idx == TagIndex(name)
    IN  /\ jointNames' = MapTouch(jointNames, name)
        /\ lastCall' = [op |-> "setFoot", a |-> name, b |-> "", x |-> 0]
        /\ IF idx >= 0 /\ idx < Len(cFeetV)
           THEN cFeetV' = Put(cFeetV, idx, TRUE) /\ outcome' = "ok"
           ELSE cFeetV' = cFeetV /\ outcome' = ub
        /\ UNCHANGED <<fPrevV, fSymV, fVerts, fEdges, fcMapV, cfMapV, fcFractionV,
                       cPrevV, cSymV, cVerts, cEdges, cFatV, cLengthV>>

setFat(name, ub) ==
    LET idx == TagIndex(name)
    IN  /\ jointNames' = MapTouch(jointNames, name)
        /\ lastCall' = [op |-> "setFat", a |-> name, b |-> "", x |-> 0]
        /\ IF idx >= 0 /\ idx < Len(cFatV)
           THEN cFatV' = Put(cFatV, idx, TRUE) /\ outcome' = "ok"
           ELSE cFatV' = cFatV /\ outcome' = ub
        /\ UNCHANGED <<fPrevV, fSymV, fVerts, fEdges, fcMapV, cfMapV, fcFractionV,
                       cPrevV, cSymV, cVerts, cEdges, cFeetV, cLengthV>>

(***************************************************************************)
(* Callers.  Undefined behaviour ends in one of UBOutcomes: the call       *)
(* returns ("ok") or the process dies ("crash").                           *)
(***************************************************************************)
UBOutcomes == {"ok", "crash"}

\* what the reads at index -1 give initCompressed: nothing to choose when no
\* walk gets there, else death or a survivable pair (fcMapV[-1], verts[-1])
GarbageReads ==
    LET r == Compressed(0, 0)
    IN  IF r.ub
        THEN {<<"crash", 0, 0>>, <<"ok", 0, 0>>, <<"ok", r.nc - 1, 1>>}
        ELSE {<<"ok", 0, 0>>}

Live(d) == driver \in d /\ outcome = "ok"

\* the construction order contract: a new name, and a parent that exists
\* (none for the first joint)
KeepsOrder(name, previous) ==
    /\ name \notin DOMAIN jointNames
    /\ IF Len(fPrevV) = 0 THEN previous = ""
       ELSE previous # "" /\ previous \in DOMAIN jointNames

(***************************************************************************)
(* A free caller: any names, positions and parents, as FileSkeleton makes  *)
(* of the lines of a file (lines 356-372: makeJoint(name, p * 2., parent)  *)
(* per line, then one initCompressed); symmetries before initCompressed;   *)
(* tags at any time, since nothing in the class prevents a tag call before *)
(* initCompressed.                                                         *)
(***************************************************************************)
\* lines 366-367: the word "-1" of a line stands for no parent
FileParent(word) == IF word = "-1" THEN "" ELSE word

CallMakeJoint ==
    /\ Live({"Free"}) /\ phase = "Open" /\ Len(fPrevV) < MaxJoints
    /\ \E name \in Names, p \in Coordinates, word \in Names \cup {"-1"} :
          /\ makeJoint(name, p * 2, FileParent(word))
          /\ disciplined' = (disciplined /\ KeepsOrder(name, FileParent(word)))
    /\ UNCHANGED <<comp, phase, driver, pc, walkSteps, nSym, nScale, nTag>>

CallMakeSymmetric ==
    /\ Live({"Free"}) /\ phase = "Open" /\ nSym < MaxSym
    /\ \E name1 \in Names, name2 \in Names, ub \in UBOutcomes :
          /\ makeSymmetric(name1, name2, ub)
          /\ disciplined' = (disciplined /\ {name1, name2} \subseteq DOMAIN jointNames)
    /\ nSym' = nSym + 1
    /\ UNCHANGED <<comp, phase, driver, pc, walkSteps, nScale, nTag>>

CallInitCompressed ==
    /\ Live({"Free"}) /\ phase = "Open"
    /\ \E c \in GarbageReads : initCompressed(c[1], c[2], c[3])
    /\ phase' = IF outcome' = "ok" THEN "Compressed" ELSE phase
    /\ UNCHANGED <<driver, pc, disciplined, nSym, nScale, nTag>>

CallSetFoot ==
    /\ Live({"Free"}) /\ nTag < MaxTag
    /\ \E name \in Names, ub \in UBOutcomes : setFoot(name, ub)
    /\ nTag' = nTag + 1
    /\ UNCHANGED <<phase, driver, pc, disciplined, walkSteps, nSym, nScale>>

CallSetFat ==
    /\ Live({"Free"}) /\ nTag < MaxTag
    /\ \E name \in Names, ub \in UBOutcomes : setFat(name, ub)
    /\ nTag' = nTag + 1
    /\ UNCHANGED <<phase, driver, pc, disciplined, walkSteps, nSym, nScale>>

(***************************************************************************)
(* The built-in constructors, as the lists of the calls they make.  The    *)
(* position kept of each PVector3 is its y coordinate, in units of 1/200.  *)
(***************************************************************************)
J(name, y, previous) == [op |-> "makeJoint", a |-> name, b |-> previous, x |-> y]

S(name1, name2) == [op |-> "makeSymmetric", a |-> name1, b |-> name2, x |-> 0]

C == [op |-> "initCompressed", a |-> "", b |-> "", x |-> 0]

F(name) == [op |-> "setFoot", a |-> name, b |-> "", x |-> 0]

T(name) == [op |-> "setFat", a |-> name, b |-> "", x |-> 0]

HumanSkeleton ==
    <<J("shoulders", 100, ""),
       J("back", 30, "shoulders"),
       J("hips", 0, "back"),
       J("head", 140, "shoulders"),
       J("lthigh", 0, "hips"),
       J("lknee", -70, "lthigh"),
       J("lankle", -160, "lknee"),
       J("lfoot", -160, "lankle"),
       J("rthigh", 0, "hips"),
       J("rknee", -70, "rthigh"),
       J("rankle", -160, "rknee"),
       J("rfoot", -160, "rankle"),
       J("lshoulder", 100, "shoulders"),
       J("lelbow", 50, "lshoulder"),
       J("lhand", 0, "lelbow"),
       J("rshoulder", 100, "shoulders"),
       J("relbow", 50, "rshoulder"),
       J("rhand", 0, "relbow"),
       S("lthigh", "rthigh"),
       S("lknee", "rknee"),
       S("lankle", "rankle"),
       S("lfoot", "rfoot"),
       S("lshoulder", "rshoulder"),
       S("lelbow", "relbow"),
       S("lhand", "rhand"),
       C,
       F("lfoot"),
       F("rfoot"),
       T("hips"),
       T("shoulders"),
       T("head")>>

QuadSkeleton ==
    <<J("shoulders", 0, ""),
       J("back", 0, "shoulders"),
       J("hips", 0, "back"),
       J("neck", 40, "shoulders"),
       J("head", 40, "neck"),
       J("lthigh", 0, "hips"),
       J("lhknee", -80, "lthigh"),
       J("lhfoot", -160, "lhknee"),
       J("rthigh", 0, "hips"),
       J("rhknee", -80, "rthigh"),
       J("rhfoot", -160, "rhknee"),
       J("lshoulder", 0, "shoulders"),
       J("lfknee", -80, "lshoulder"),
       J("lffoot", -160, "lfknee"),
       J("rshoulder", 0, "shoulders"),
       J("rfknee", -80, "rshoulder"),
       J("rffoot", -160, "rfknee"),
       J("tail", 0, "hips"),
       S("lthigh", "rthigh"),
       S("lhknee", "rhknee"),
       S("lhfoot", "rhfoot"),
       S("lshoulder", "rshoulder"),
       S("lfknee", "rfknee"),
       S("lffoot", "rffoot"),
       C,
       F("lhfoot"),
       F("rhfoot"),
       F("lffoot"),
       F("rffoot"),
       T("hips"),
       T("shoulders"),
       T("head")>>

HorseSkeleton ==
    <<J("shoulders", 0, ""),
       J("back", 0, "shoulders"),
       J("hips", 0, "back"),
       J("neck", 40, "shoulders"),
       J("head", 40, "neck"),
       J("lthigh", 0, "hips"),
       J("lhknee", -40, "lthigh"),
       J("lhheel", -80, "lhknee"),
       J("lhfoot", -160, "lhheel"),
       J("rthigh", 0, "hips"),
       J("rhknee", -40, "rthigh"),
       J("rhheel", -80, "rhknee"),
       J("rhfoot", -160, "rhheel"),
       J("lshoulder", 0, "shoulders"),
       J("lfknee", -80, "lshoulder"),
       J("lffoot", -160, "lfknee"),
       J("rshoulder", 0, "shoulders"),
       J("rfknee", -80, "rshoulder"),
       J("rffoot", -160, "rfknee"),
       J("tail", 0, "hips"),
       S("lthigh", "rthigh"),
       S("lhknee", "rhknee"),
       S("lhheel", "rhheel"),
       S("lhfoot", "rhfoot"),
       S("lshoulder", "rshoulder"),
       S("lfknee", "rfknee"),
       S("lffoot", "rffoot"),
       C,
       F("lhfoot"),
       F("rhfoot"),
       F("lffoot"),
       F("rffoot"),
       T("hips"),
       T("shoulders"),
       T("head")>>

CentaurSkeleton ==
    <<J("shoulders", 0, ""),
       J("back", 0, "shoulders"),
       J("hips", 0, "back"),
       J("hback", 50, "shoulders"),
       J("hshoulders", 100, "hback"),
       J("head", 140, "hshoulders"),
       J("lthigh", 0, "hips"),
       J("lhknee", -80, "lthigh"),
       J("lhfoot", -160, "lhknee"),
       J("rthigh", 0, "hips"),
       J("rhknee", -80, "rthigh"),
       J("rhfoot", -160, "rhknee"),
       J("lshoulder", 0, "shoulders"),
       J("lfknee", -80, "lshoulder"),
       J("lffoot", -160, "lfknee"),
       J("rshoulder", 0, "shoulders"),
       J("rfknee", -80, "rshoulder"),
       J("rffoot", -160, "rfknee"),
       J("hlshoulder", 100, "hshoulders"),
       J("lelbow", 50, "hlshoulder"),
       J("lhand", 0, "lelbow"),
       J("hrshoulder", 100, "hshoulders"),
       J("relbow", 50, "hrshoulder"),
       J("rhand", 0, "relbow"),
       J("tail", 0, "hips"),
       S("lthigh", "rthigh"),
       S("lhknee", "rhknee"),
       S("lhheel", "rhheel"),
       S("lhfoot", "rhfoot"),
       S("lshoulder", "rshoulder"),
       S("lfknee", "rfknee"),
       S("lffoot", "rffoot"),
       S("hlshoulder", "hrshoulder"),
       S("lelbow", "relbow"),
       S("lhand", "rhand"),
       C,
       F("lhfoot"),
       F("rhfoot"),
       F("lffoot"),
       F("rffoot"),
       T("hips"),
       T("shoulders"),
       T("hshoulders"),
       T("head")>>

Constructors == {"Human", "Quad", "Horse", "Centaur"}

Calls(d) ==
    CASE d = "Human" -> HumanSkeleton
      [] d = "Quad" -> QuadSkeleton
      [] d = "Horse" -> HorseSkeleton
      [] d = "Centaur" -> CentaurSkeleton

\* the next call of the running constructor
ConstructorStep ==
    /\ Live(Constructors) /\ pc <= Len(Calls(driver))
    /\ \E c \in {Calls(driver)[pc]} :
          CASE c.op = "makeJoint" ->
                 /\ makeJoint(c.a, c.x, c.b)
                 /\ disciplined' = (disciplined /\ KeepsOrder(c.a, c.b))
                 /\ UNCHANGED <<comp, phase, walkSteps>>
            [] c.op = "makeSymmetric" ->
                 /\ \E ub \in UBOutcomes : makeSymmetric(c.a, c.b, ub)
                 /\ disciplined' = (disciplined /\ {c.a, c.b} \subseteq DOMAIN jointNames)
                 /\ UNCHANGED <<comp, phase, walkSteps>>
            [] c.op = "initCompressed" ->
                 /\ \E r \in GarbageReads : initCompressed(r[1], r[2], r[3])
                 /\ phase' = IF outcome' = "ok" THEN "Compressed" ELSE phase
                 /\ UNCHANGED disciplined
            [] c.op = "setFoot" ->
                 /\ \E ub \in UBOutcomes : setFoot(c.a, ub)
                 /\ UNCHANGED <<phase, disciplined, walkSteps>>
            [] c.op = "setFat" ->
                 /\ \E ub \in UBOutcomes : setFat(c.a, ub)
                 /\ UNCHANGED <<phase, disciplined, walkSteps>>
    /\ pc' = pc + 1
    /\ UNCHANGED <<driver, nSym, nScale, nTag>>

\* scale is public: a user calls it on a skeleton at any time
CallScale ==
    /\ Live(Constructors) /\ nScale < MaxScale
    /\ \E factor \in Factors : scale(factor)
    /\ nScale' = nScale + 1
    /\ UNCHANGED <<phase, driver, pc, disciplined, walkSteps, nSym, nTag>>

(***************************************************************************)
(* Specifications.                                                         *)
(***************************************************************************)
Empty ==
    /\ jointNames = <<>> /\ fPrevV = <<>> /\ fSymV = <<>> /\ fVerts = <<>> /\ fEdges = <<>>
    /\ fcMapV = <<>> /\ cfMapV = <<>> /\ fcFractionV = <<>> /\ cPrevV = <<>>
    /\ cSymV = <<>> /\ cVerts = <<>> /\ cEdges = <<>> /\ cFeetV = <<>> /\ cFatV = <<>>
    /\ cLengthV = <<>>
    /\ phase = "Open" /\ outcome = "ok" /\ lastCall = NoCall
    /\ pc = 1 /\ disciplined = TRUE /\ walkSteps = 0
    /\ nSym = 0 /\ nScale = 0 /\ nTag = 0

Init == Empty /\ driver = "Free"

\* file-driven construction: joints, then compression
Next ==
    \/ CallMakeJoint
    \/ CallInitCompressed

Spec == Init /\ [][Next]_vars

\* joints and symmetries
NextBuild ==
    \/ CallMakeJoint
    \/ CallMakeSymmetric

SpecBuild == Init /\ [][NextBuild]_vars

\* joints, compression and tags
NextTags ==
    \/ CallMakeJoint
    \/ CallInitCompressed
    \/ CallSetFoot
    \/ CallSetFat

SpecTags == Init /\ [][NextTags]_vars

\* the built-in skeletons, and their users
InitTemplates == Empty /\ driver \in Constructors

NextTemplates ==
    \/ ConstructorStep
    \/ CallScale

SpecTemplates == InitTemplates /\ [][NextTemplates]_vars

(***************************************************************************)
(* Vocabulary of the properties.                                           *)
(***************************************************************************)
N == Len(fPrevV)

Nc == Len(cfMapV)

Range(s) == {s[k] : k \in 1..Len(s)}

Degree(i) == Len(At(fEdges, i))

\* retained in compression: the root, or a joint whose degree is not 2
IsRetained(i) == i = 0 \/ Degree(i) # 2

Children(i) == {k \in 0..(N - 1) : At(fPrevV, k) = i}

\* initCompressed has just returned
Returned == lastCall.op = "initCompressed" /\ outcome = "ok"

RECURSIVE Reach(_)
Reach(set) ==
    LET more == set \cup UNION {Range(At(fEdges, i)) : i \in set}
    IN  IF more = set THEN set ELSE Reach(more)

RECURSIVE SumLen(_)
SumLen(ss) == IF ss = <<>> THEN 0 ELSE Len(Head(ss)) + SumLen(Tail(ss))

\* the full skeleton is a tree rooted at joint 0, stored as the code stores it
FullTree ==
    /\ N >= 1
    /\ At(fPrevV, 0) = -1
    /\ \A i \in 1..(N - 1) : At(fPrevV, i) \in 0..(i - 1)
    /\ \A i \in 0..(N - 1) :
          /\ Range(At(fEdges, i)) = Children(i) \cup ({At(fPrevV, i)} \ {-1})
          /\ Degree(i) = Cardinality(Children(i)) + (IF i = 0 THEN 0 ELSE 1)

\* the strict ancestors of joint i in a tree
RECURSIVE StrictAnc(_)
StrictAnc(i) ==
    IF At(fPrevV, i) < 0 THEN {}
    ELSE {At(fPrevV, i)} \cup StrictAnc(At(fPrevV, i))

\* the chain of a bone: from joint i upward to, but not including, the nearest
\* retained ancestor
RECURSIVE BoneFrom(_)
BoneFrom(i) ==
    <<i>> \o (IF At(fPrevV, i) < 0 \/ IsRetained(At(fPrevV, i))
              THEN <<>> ELSE BoneFrom(At(fPrevV, i)))

Bone(j) == BoneFrom(At(cfMapV, j))

\* every segment (i, parent(i)) of the bone exists
BoneDefined(j) == \A i \in Range(Bone(j)) : At(fPrevV, i) >= 0

Seg(i) == Abs(At(fVerts, i) - At(fVerts, At(fPrevV, i)))

RECURSIVE SumSeg(_)
SumSeg(joints) == IF joints = <<>> THEN 0 ELSE Seg(Head(joints)) + SumSeg(Tail(joints))

\* fraction f times the integer len equals the integer seg
TimesIs(f, len, seg) == f # NaN /\ f[1] * len = seg * f[2]

\* the fractions of the joints sum to one (over the common denominator den)
RECURSIVE SumNum(_, _)
SumNum(joints, den) ==
    IF joints = <<>> THEN 0
    ELSE LET f == At(fcFractionV, Head(joints))
         IN  f[1] * (den \div f[2]) + SumNum(Tail(joints), den)

SumIsOne(joints, den) ==
    /\ \A i \in Range(joints) : At(fcFractionV, i) # NaN /\ den % At(fcFractionV, i)[2] = 0
    /\ SumNum(joints, den) = den

(***************************************************************************)
(* C1: every addJoint call whose name is that of an existing joint or      *)
(* whose non-empty parent names no joint, and every markSymmetric call     *)
(* with an unknown name, ends in an error and leaves the skeleton          *)
(* unchanged.                                                              *)
(***************************************************************************)
C1_Rejected ==
    [][(\/ /\ lastCall'.op = "makeJoint"
           /\ \/ lastCall'.a \in DOMAIN jointNames
              \/ lastCall'.b # "" /\ lastCall'.b \notin DOMAIN jointNames
        \/ /\ lastCall'.op = "makeSymmetric"
           /\ ~({lastCall'.a, lastCall'.b} \subseteq DOMAIN jointNames))
       => (outcome' = "error" /\ UNCHANGED <<full, comp>>)]_vars

(***************************************************************************)
(* C2: after any sequence of addJoint calls joint 0 is the only joint      *)
(* without a parent, every other parent index is an existing joint index   *)
(* below the joint's own, and the adjacency graph is a tree: N joints,     *)
(* N-1 edges, connected, no self-loop.                                     *)
(***************************************************************************)
C2_AlwaysTree ==
    N >= 1 =>
       /\ At(fPrevV, 0) = -1
       /\ \A i \in 1..(N - 1) : At(fPrevV, i) \in 0..(i - 1)
       /\ SumLen(fEdges) = 2 * (N - 1)
       /\ \A i \in 0..(N - 1) : i \notin Range(At(fEdges, i))
       /\ Reach({0}) = 0..(N - 1)

(***************************************************************************)
(* C3: after any sequence of addJoint and markSymmetric calls, those of    *)
(* the built-in constructors included, a joint with a symmetric partner    *)
(* stores a partner index strictly below its own.                          *)
(***************************************************************************)
C3_PartnerBelow ==
    \A i \in 0..(Len(fSymV) - 1) : At(fSymV, i) >= 0 => At(fSymV, i) < i

(***************************************************************************)
(* C4: after compress fullToCompressedIndex is an order-preserving         *)
(* bijection from the retained joints (joint 0 and the joints whose degree *)
(* is not 2) onto 0..Nc-1, is -1 for every other joint, and                *)
(* compressedToFullIndex is its inverse.                                   *)
(***************************************************************************)
C4_IndexBijection ==
    phase = "Compressed" =>
       /\ Len(fcMapV) = N
       /\ \A i \in 0..(N - 1) :
             IF IsRetained(i)
             THEN /\ At(fcMapV, i) \in 0..(Nc - 1)
                  /\ At(cfMapV, At(fcMapV, i)) = i
             ELSE At(fcMapV, i) = -1
       /\ \A j \in 0..(Nc - 1) :
             /\ At(cfMapV, j) \in 0..(N - 1)
             /\ IsRetained(At(cfMapV, j))
             /\ At(fcMapV, At(cfMapV, j)) = j
       /\ \A j \in 1..(Nc - 1) : At(cfMapV, j - 1) < At(cfMapV, j)

\* compression has collapsed a joint and kept several
C4_Witness ==
    /\ phase = "Compressed"
    /\ Nc >= 2
    /\ \E i \in 0..(N - 1) : At(fcMapV, i) = -1

(***************************************************************************)
(* C5: after compress of a tree rooted at joint 0, compressedParent[j] of  *)
(* every j > 0 is the compressed index of the first retained joint above   *)
(* compressedToFullIndex[j] on the parent chain, compressedParent[0] is    *)
(* absent, the compressed adjacency lists hold exactly the edges           *)
(* {j, compressedParent[j]}, both ways, and every collapsed joint lies     *)
(* inside one compressed bone.                                             *)
(***************************************************************************)
NearestRetained(i, a) ==
    /\ a \in StrictAnc(i)
    /\ IsRetained(a)
    /\ \A b \in StrictAnc(i) : b > a => ~IsRetained(b)

CumBelow(j, k) == SumSeg(SubSeq(Bone(j), 1, k - 1))

CumThrough(j, k) == SumSeg(SubSeq(Bone(j), 1, k))

C6_Cumulative ==
    (Returned /\ disciplined) =>
       \/ \A j \in 1..(Nc - 1) :
             BoneDefined(j) =>
                \A k \in 1..Len(Bone(j)) :
                   At(fcFractionV, Bone(j)[k]) = Quot(CumBelow(j, k), At(cLengthV, j))
       \/ \A j \in 1..(Nc - 1) :
             BoneDefined(j) =>
                \A k \in 1..Len(Bone(j)) :
                   At(fcFractionV, Bone(j)[k]) = Quot(CumThrough(j, k), At(cLengthV, j))

(***************************************************************************)
(* C6 as amended: after compress, fractionAlongBone[i] of every joint i on *)
(* the chain of a bone j > 0 is the length of the joint's own segment      *)
(* (i, parent(i)) divided by boneLength[j].                                *)
(***************************************************************************)
C6_SegmentFraction ==
    Returned =>
       \A j \in 1..(Nc - 1) :
          BoneDefined(j) =>
             \A i \in Range(Bone(j)) :
                At(fcFractionV, i) = Quot(Seg(i), At(cLengthV, j))

\* a bone of two segments of different lengths
C6_Witness ==
    /\ Returned
    /\ \E j \in 1..(Nc - 1) :
          /\ BoneDefined(j)
          /\ Len(Bone(j)) = 2
          /\ Seg(Bone(j)[1]) # Seg(Bone(j)[2])
          /\ Seg(Bone(j)[1]) > 0 /\ Seg(Bone(j)[2]) > 0

(***************************************************************************)
(* C7 as stated: after compress, boneLength[j] of every bone j > 0 is the  *)
(* sum of the lengths of the segments of its chain, fractionAlongBone[i]   *)
(* times boneLength[j] is the length of segment (i, parent(i)), and the    *)
(* fractions of the chain sum to 1.  It is stated for the skeletons built  *)
(* in construction order, where every chain is defined.                    *)
(***************************************************************************)
C7_Reconstructs ==
    (Returned /\ disciplined) =>
       \A j \in 1..(Nc - 1) :
          BoneDefined(j) =>
             /\ At(cLengthV, j) = SumSeg(Bone(j))
             /\ \A i \in Range(Bone(j)) :
                   TimesIs(At(fcFractionV, i), At(cLengthV, j), Seg(i))
             /\ SumIsOne(Bone(j), At(cLengthV, j))

(***************************************************************************)
(* C7 as amended: after compress, boneLength[j] of every bone j > 0 is the *)
(* sum of the lengths of the segments of its chain and, when that length   *)
(* is not zero, fractionAlongBone[i] times boneLength[j] is the length of  *)
(* segment (i, parent(i)) and the fractions of the chain sum to 1.         *)
(***************************************************************************)
C7_ReconstructsNonZero ==
    Returned =>
       \A j \in 1..(Nc - 1) :
          BoneDefined(j) =>
             /\ At(cLengthV, j) = SumSeg(Bone(j))
             /\ At(cLengthV, j) # 0 =>
                   /\ \A i \in Range(Bone(j)) :
                         TimesIs(At(fcFractionV, i), At(cLengthV, j), Seg(i))
                   /\ SumIsOne(Bone(j), At(cLengthV, j))

\* a bone of non-zero length that subsumes two segments
C7_Witness ==
    /\ Returned
    /\ \E j \in 1..(Nc - 1) :
          /\ BoneDefined(j)
          /\ Len(Bone(j)) >= 2
          /\ At(cLengthV, j) > Seg(At(cfMapV, j))
          /\ Seg(At(cfMapV, j)) > 0

(***************************************************************************)
(* C8: scale(factor) multiplies every full joint position, every           *)
(* compressed joint position and every compressed bone length by factor,   *)
(* and leaves the fractions, both index mappings, the parents, the         *)
(* symmetries, the adjacency lists, the tags and the name table as they    *)
(* were, before and after compress.                                        *)
(***************************************************************************)
C8_ScaleFrame ==
    [][lastCall'.op = "scale" =>
          /\ fVerts' = [k \in 1..Len(fVerts) |-> lastCall'.x * fVerts[k]]
          /\ cVerts' = [k \in 1..Len(cVerts) |-> lastCall'.x * cVerts[k]]
          /\ cLengthV' = [k \in 1..Len(cLengthV) |-> lastCall'.x * cLengthV[k]]
          /\ UNCHANGED <<fcFractionV, fcMapV, cfMapV, fPrevV, cPrevV, fSymV, cSymV,
                         fEdges, cEdges, cFeetV, cFatV, jointNames>>]_vars

\* a compressed, tagged, symmetric skeleton has been rescaled
C8_Witness ==
    /\ lastCall.op = "scale" /\ lastCall.x # 1
    /\ phase = "Compressed"
    /\ \E j \in 1..(Nc - 1) : At(cLengthV, j) # 0
    /\ \E i \in 0..(N - 1) : At(fcMapV, i) = -1
    /\ \E i \in 0..(N - 1) : At(fSymV, i) >= 0
    /\ \E j \in 0..(Nc - 1) : At(cFeetV, j)

(***************************************************************************)
(* C9: a markFoot/markFat call made before compress is reported as a       *)
(* contract violation and sets no tag; a call made after compress sets     *)
(* exactly the foot (fat) tag at the compressed index of the named joint,  *)
(* an index within 0..Nc-1, and no other tag.                              *)
(***************************************************************************)
C9_TagContract ==
    [][lastCall'.op \in {"setFoot", "setFat"} =>
          IF phase = "Open"
          THEN outcome' = "error" /\ UNCHANGED <<cFeetV, cFatV>>
          ELSE lastCall'.a \in DOMAIN jointNames =>
                  /\ jointNames[lastCall'.a] < Len(fcMapV)
                  /\ At(fcMapV, jointNames[lastCall'.a]) \in 0..(Nc - 1)
                  /\ IF lastCall'.op = "setFoot"
                     THEN /\ cFeetV' = Put(cFeetV, At(fcMapV, jointNames[lastCall'.a]), TRUE)
                          /\ cFatV' = cFatV
                     ELSE /\ cFatV' = Put(cFatV, At(fcMapV, jointNames[lastCall'.a]), TRUE)
                          /\ cFeetV' = cFeetV]_vars

(***************************************************************************)
(* C10: on a skeleton built in construction order (only the first          *)
(* addJoint without a parent, every later one with a new name and an       *)
(* existing parent) compress terminates: either upward walk stops at a     *)
(* retained joint after at most N steps and never uses the root's absent   *)
(* parent as an index.                                                     *)
(***************************************************************************)
C10_WalksTerminate ==
    (disciplined /\ lastCall.op = "initCompressed") =>
       /\ outcome = "ok"
       /\ walkSteps <= N
       /\ \A j \in 1..(Nc - 1) :
             /\ ~PrevWalk(At(fPrevV, At(cfMapV, j)), fcMapV, 0, 1).ub
             /\ ~PrevWalk(At(fPrevV, At(cfMapV, j)), fcMapV, 0, 1).hung
             /\ PrevWalk(At(fPrevV, At(cfMapV, j)), fcMapV, 0, 1).val = At(cPrevV, j)
             /\ ~ChainWalk(At(cfMapV, j), fcMapV, 1).ub
             /\ ~ChainWalk(At(cfMapV, j), fcMapV, 1).hung
             /\ IsRetained(At(fPrevV, ChainWalk(At(cfMapV, j), fcMapV, 1).joints[
                               Len(ChainWalk(At(cfMapV, j), fcMapV, 1).joints)]))

\* compress of a skeleton built in order, with a walk over a collapsed joint
C10_Witness ==
    /\ disciplined /\ Returned
    /\ walkSteps >= 2
    /\ \E i \in 1..(N - 1) : At(fcMapV, i) = -1

====
